---- MODULE Spec2Model ----
(***************************************************************************)
(* Model of the opencode-time-refresh plugin: the configuration loader and *)
(* validator (config.ts), the time formatter (formatter.ts), the minimal   *)
(* entry point (plugin.ts, hook 'chat.message') and the library entry      *)
(* point (index.ts, hook 'tui.prompt.append').                             *)
(*                                                                         *)
(* JavaScript strings are sequences of one-character strings.  JavaScript  *)
(* values are tagged records [t |-> type, v |-> payload].  A call that can *)
(* throw returns [st |-> "ok", v |-> value] or [st |-> "throw", v |-> e].  *)
(***************************************************************************)
EXTENDS Integers, Sequences, FiniteSets, TLC

\* ------------------------------------------------------------------------
\* Bounds of the model
\* ------------------------------------------------------------------------
\* number of output objects the host owns
NumOut == 2
\* number of distinct non-empty message identifiers the host uses
NumMsgIds == 2
\* number of session identifiers the host uses
NumSessions == 1
\* number of times the wall clock is read by a hook
MaxClock == 2
\* number of fields overridden in a configuration given to formatTime
MaxOverrides == 2
\* number of runs of one character a token template is made of
MaxRuns == 2
\* number of times a run repeats its character
MaxRunLen == 5
\* number of objects loadConfig creates
MaxObjects == 2
\* number of assignments a caller makes to fields of the objects it holds
MaxMutations == 2
MaxActivations == 2

\* ------------------------------------------------------------------------
\* JavaScript values
\* ------------------------------------------------------------------------
Undefined == [t |-> "undefined"]
Null == [t |-> "null"]
Bool(b) == [t |-> "boolean", v |-> b]
Num(n) == [t |-> "number", v |-> n]
Str(s) == [t |-> "string", v |-> s]
Obj(f) == [t |-> "object", v |-> f]

\* x === y on primitive values
StrictEq(x, y) == x.t = y.t /\ (x.t \in {"undefined", "null"} \/ x.v = y.v)

Ok(x) == [st |-> "ok", v |-> x]
Throw(e) == [st |-> "throw", v |-> e]

\* ToBoolean: false, 0, "", null and undefined are falsy
Truthy(x) ==
  CASE x.t = "undefined" -> FALSE
    [] x.t = "null" -> FALSE
    [] x.t = "boolean" -> x.v
    [] x.t = "number" -> x.v # 0
    [] x.t = "string" -> x.v # <<>>
    [] OTHER -> TRUE

Digit(d) == <<"0", "1", "2", "3", "4", "5", "6", "7", "8", "9">>[d + 1]

\* Number.prototype.toString for a non-negative integer
RECURSIVE NumToString(_)
NumToString(n) ==
  IF n < 10 THEN <<Digit(n)>> ELSE NumToString(n \div 10) \o <<Digit(n % 10)>>

\* String.prototype.padStart(length, '0')
RECURSIVE padStart(_, _)
padStart(s, length) ==
  IF Len(s) >= length THEN s ELSE padStart(<<"0">> \o s, length)

\* ToString as applied by a template literal `${x}`
TemplateToString(x) ==
  CASE x.t = "string" -> x.v
    [] x.t = "number" -> NumToString(x.v)
    [] x.t = "boolean" -> IF x.v THEN <<"t", "r", "u", "e">>
                                 ELSE <<"f", "a", "l", "s", "e">>
    [] x.t = "null" -> <<"n", "u", "l", "l">>
    [] x.t = "undefined" -> <<"u", "n", "d", "e", "f", "i", "n", "e", "d">>
    [] OTHER -> <<"[", "o", "b", "j", "e", "c", "t", " ",
                  "O", "b", "j", "e", "c", "t", "]">>

\* String.prototype.trim() = '' : only white space
IsBlank(s) == \A i \in 1..Len(s) : s[i] \in {" ", "\t", "\n"}

\* s.replace(token, value): the first occurrence only
SplitJoin_first(s, token, value) ==
  IF \E i \in 1..(Len(s) - Len(token) + 1) :
       SubSeq(s, i, i + Len(token) - 1) = token
  THEN LET first == CHOOSE i \in 1..(Len(s) - Len(token) + 1) :
                      /\ SubSeq(s, i, i + Len(token) - 1) = token
                      /\ \A j \in 1..(i - 1) :
                           SubSeq(s, j, j + Len(token) - 1) # token
       IN  SubSeq(s, 1, first - 1) \o value
           \o SubSeq(s, first + Len(token), Len(s))
  ELSE s

\* s.split(token).join(value): every non-overlapping occurrence, left to right
RECURSIVE SplitJoin(_, _, _)
SplitJoin(s, token, value) ==
  IF Len(s) < Len(token) THEN s
  ELSE IF SubSeq(s, 1, Len(token)) = token
       THEN value \o SplitJoin(SubSeq(s, Len(token) + 1, Len(s)), token, value)
       ELSE <<Head(s)>> \o SplitJoin(Tail(s), token, value)

\* ------------------------------------------------------------------------
\* Instants and the timezone database (Date and Intl)
\* ------------------------------------------------------------------------
\* An instant is [day, sod, ms]: days since 1970-01-01, second of the UTC
\* day, millisecond of the second.
Instant(day, sod, ms) == [day |-> day, sod |-> sod, ms |-> ms]

\* 2024-06-15T14:30:45.123Z
TestDate == Instant(19889, 52245, 123)
\* 2024-01-05T03:05:07.000Z
EarlyDate == Instant(19727, 11107, 0)
\* 2024-06-15T23:59:59.999Z
LateDate == Instant(19889, 86399, 999)

TZ_UTC == <<"U", "T", "C">>
TZ_NewYork == <<"A", "m", "e", "r", "i", "c", "a", "/",
                "N", "e", "w", "_", "Y", "o", "r", "k">>
TZ_Tokyo == <<"A", "s", "i", "a", "/", "T", "o", "k", "y", "o">>
TZ_Invalid == <<"I", "n", "v", "a", "l", "i", "d", "/",
                "T", "i", "m", "e", "z", "o", "n", "e">>

\* The identifiers the timezone database accepts
ValidZones == {TZ_UTC, TZ_NewYork, TZ_Tokyo}

\* Offset from UTC in minutes of a zone of the database
ZoneOffset(zone) ==
  CASE zone = TZ_UTC -> 0
    [] zone = TZ_NewYork -> 0 - 240
    [] zone = TZ_Tokyo -> 540

\* Civil date of a day number (proleptic Gregorian calendar), computed in
\* steps: era and day of era, year of era, day of year, month
CivilOfMonth(y, m, d) ==
  [year |-> y + (IF m <= 2 THEN 1 ELSE 0), month |-> m, day |-> d]

CivilOfMp(y, doy, mp) ==
  CivilOfMonth(y, IF mp < 10 THEN mp + 3 ELSE mp - 9,
               doy - (153 * mp + 2) \div 5 + 1)

CivilOfDoy(y, doy) == CivilOfMp(y, doy, (5 * doy + 2) \div 153)

CivilOfYoe(era, doe, yoe) ==
  CivilOfDoy(yoe + era * 400, doe - (365 * yoe + yoe \div 4 - yoe \div 100))

CivilOfEra(era, doe) ==
  CivilOfYoe(era, doe,
             (doe - doe \div 1460 + doe \div 36524 - doe \div 146096) \div 365)

CivilFromDays(day) ==
  CivilOfEra((day + 719468) \div 146097, (day + 719468) % 146097)

\* -1, 0 or 1: the day the zone's wall clock is on, relative to the UTC day
DayShift(secs) == IF secs < 0 THEN 0 - 1 ELSE IF secs >= 86400 THEN 1 ELSE 0

PartsAt(civil, sod) ==
  [year |-> civil.year, month |-> civil.month, day |-> civil.day,
   hour |-> sod \div 3600, minute |-> (sod % 3600) \div 60,
   second |-> sod % 60]

PartsOf(day, secs) ==
  PartsAt(CivilFromDays(day + DayShift(secs)), secs - 86400 * DayShift(secs))

\* Calendar components of an instant in a zone of the database
ZonedParts(date, zone) == PartsOf(date.day, date.sod + 60 * ZoneOffset(zone))

\* Intl.DateTimeFormat(locale, {timeZone}): the constructor throws
\* RangeError for an identifier the database rejects; ToString is applied
\* to a non-string timeZone first; undefined means the system zone.
IntlAccepts(timeZone) ==
  timeZone.t = "undefined" \/ TemplateToString(timeZone) \in ValidZones

IsoOf(p, ms) ==
  padStart(NumToString(p.year), 4) \o <<"-">>
  \o padStart(NumToString(p.month), 2) \o <<"-">>
  \o padStart(NumToString(p.day), 2) \o <<"T">>
  \o padStart(NumToString(p.hour), 2) \o <<":">>
  \o padStart(NumToString(p.minute), 2) \o <<":">>
  \o padStart(NumToString(p.second), 2) \o <<".">>
  \o padStart(NumToString(ms), 3) \o <<"Z">>

\* the calendar components of a zone east of UTC with a Z behind
toISOString_zoned(date) == IsoOf(ZonedParts(date, TZ_Tokyo), date.ms)

\* Date.prototype.toISOString
toISOString(date) == IsoOf(ZonedParts(date, TZ_UTC), date.ms)

Hour12(hour) == IF hour % 12 = 0 THEN 12 ELSE hour % 12

LocaleOf(p) ==
  NumToString(p.month) \o <<"/">> \o NumToString(p.day) \o <<"/">>
  \o NumToString(p.year) \o <<",", " ">>
  \o NumToString(Hour12(p.hour)) \o <<":">>
  \o padStart(NumToString(p.minute), 2) \o <<":">>
  \o padStart(NumToString(p.second), 2) \o <<" ">>
  \o (IF p.hour < 12 THEN <<"A", "M">> ELSE <<"P", "M">>)

\* Date.prototype.toLocaleString(undefined, {timeZone}) in the en-US locale:
\* M/D/YYYY, h:mm:ss AM
toLocaleString(date, zone) == LocaleOf(ZonedParts(date, zone))

\* ------------------------------------------------------------------------
\* State
\* ------------------------------------------------------------------------
VARIABLES
  systemTz,           \* the host machine's IANA timezone
  phase,              \* "init" before the factory ran, "active" after
  entry,              \* the factory the host called
  config,             \* the merged configuration captured by the hooks
  hooks,              \* names of the hooks the factory returned
  warnings,           \* console.warn calls made by the factory
  processedMessages,  \* the Set captured by the 'chat.message' hook
  outputs,            \* parts of each 'chat.message' output object
  append,             \* append field of each 'tui.prompt.append' output
  clock,              \* number of times a hook has read the wall clock
  last,               \* the latest hook invocation: input and outcome
  seen,               \* message identifiers 'chat.message' was invoked with
  call,               \* the latest direct call of an exported function
  ret,                \* what that call returned or threw
  heap,               \* the objects: DEFAULT_CONFIG, then those created
                      \* since, in order of creation
  held,               \* addresses of the objects a caller holds
  mutations,          \* number of assignments callers made to their fields
  configFiles         \* what the two candidate configuration paths hold

vars == <<systemTz, phase, entry, config, hooks, warnings, processedMessages,
          outputs, append, clock, last, seen, call, ret, heap, held,
          mutations, configFiles>>

objectVars == <<heap, held, mutations>>

pluginVars == <<phase, entry, config, hooks, warnings, processedMessages,
                outputs, append, clock, last, seen>>

\* ------------------------------------------------------------------------
\* formatter.ts
\* ------------------------------------------------------------------------
isValidTimezone(timezone) ==
  IF StrictEq(timezone, Str(<<>>)) THEN TRUE ELSE IntlAccepts(timezone)

getSystemTimezone == systemTz

FORMAT_TOKENS ==
  << <<"Y", "Y", "Y", "Y">>, <<"Y", "Y">>, <<"M", "M">>, <<"M">>,
     <<"D", "D">>, <<"D">>, <<"H", "H">>, <<"H">>,
     <<"m", "m">>, <<"m">>, <<"s", "s">>, <<"s">> >>

\* timezone || undefined, then new Intl.DateTimeFormat('en-US', options)
DateTimeFormat(date, timeZone) ==
  IF ~IntlAccepts(timeZone) THEN Throw("RangeError")
  ELSE Ok(ZonedParts(date, IF timeZone.t = "undefined" THEN systemTz
                           ELSE TemplateToString(timeZone)))

getDateParts(date, timezone) ==
  DateTimeFormat(date, IF Truthy(timezone) THEN timezone ELSE Undefined)

\* a padZero that does not pad
padZero_unpadded(num, length) == NumToString(num)

padZero(num, length) == padStart(NumToString(num), length)

replacements(parts) ==
  << padZero(parts.year, 4), padZero(parts.year % 100, 2),
     padZero(parts.month, 2), NumToString(parts.month),
     padZero(parts.day, 2), NumToString(parts.day),
     padZero(parts.hour, 2), NumToString(parts.hour),
     padZero(parts.minute, 2), NumToString(parts.minute),
     padZero(parts.second, 2), NumToString(parts.second) >>

\* the loop over FORMAT_TOKENS from token i on
RECURSIVE ReplaceTokens(_, _, _, _)
ReplaceTokens(result, tokens, values, i) ==
  IF i > Len(tokens) THEN result
  ELSE ReplaceTokens(SplitJoin(result, tokens[i], values[i]),
                     tokens, values, i + 1)

\* format is a JavaScript value: result.split is not a function unless it
\* is a string
formatCustom_replace(parts, format) ==
  IF parts.st = "throw" THEN parts
  ELSE IF format.t # "string" THEN Throw("TypeError")
  ELSE Ok(ReplaceTokens(format.v, FORMAT_TOKENS, replacements(parts.v), 1))

formatCustom(date, format, timezone) ==
  formatCustom_replace(getDateParts(date, timezone), format)

resolveTimezone_system(timezone) == Str(getSystemTimezone)

\* timezone && isValidTimezone(timezone) ? timezone : getSystemTimezone()
resolveTimezone(timezone) ==
  IF Truthy(timezone) /\ isValidTimezone(timezone)
  THEN timezone ELSE Str(getSystemTimezone)

createTimeContext_in(date, resolvedTimezone) ==
  Ok([iso |-> toISOString(date),
      local |-> toLocaleString(date, TemplateToString(resolvedTimezone)),
      timezone |-> resolvedTimezone,
      timestamp |-> date])

createTimeContext(date, timezone) ==
  createTimeContext_in(date, resolveTimezone(timezone))

Format_iso == <<"i", "s", "o">>
Format_locale == <<"l", "o", "c", "a", "l", "e">>
Format_custom == <<"c", "u", "s", "t", "o", "m">>

\* switch (config.format)
formatTime_switch(date, cfg, timezone) ==
  CASE StrictEq(cfg.format, Str(Format_iso)) -> Ok(toISOString(date))
    [] StrictEq(cfg.format, Str(Format_locale)) ->
         Ok(toLocaleString(date, TemplateToString(timezone)))
    [] StrictEq(cfg.format, Str(Format_custom)) ->
         formatCustom(date, cfg.customFormat, timezone)
    [] OTHER -> Ok(toISOString(date))

\* a return that substitutes the tokens after prefix and suffix were put on
formatTime_return_substituted(formatted, cfg) ==
  IF formatted.st = "throw" THEN formatted
  ELSE Ok(ReplaceTokens(TemplateToString(cfg.prefix) \o formatted.v
                          \o TemplateToString(cfg.suffix),
                        FORMAT_TOKENS,
                        replacements(ZonedParts(TestDate, TZ_UTC)), 1))

\* return `${config.prefix}${formatted}${config.suffix}`
formatTime_return(formatted, cfg) ==
  IF formatted.st = "throw" THEN formatted
  ELSE Ok(TemplateToString(cfg.prefix) \o formatted.v
          \o TemplateToString(cfg.suffix))

formatTime(date, cfg) ==
  formatTime_return(
    formatTime_switch(date, cfg, resolveTimezone(cfg.timezone)), cfg)

\* ------------------------------------------------------------------------
\* config.ts
\* ------------------------------------------------------------------------
Fields == {"enabled", "format", "customFormat", "timezone",
           "includeInEveryMessage", "prefix", "suffix"}

VALID_FORMATS == <<Str(Format_iso), Str(Format_locale), Str(Format_custom)>>

DefaultCustomFormat ==
  <<"Y", "Y", "Y", "Y", "-", "M", "M", "-", "D", "D", " ",
    "H", "H", ":", "m", "m", ":", "s", "s">>

DefaultPrefix ==
  <<"[", "C", "u", "r", "r", "e", "n", "t", " ", "t", "i", "m", "e", ":", " ">>

DEFAULT_CONFIG ==
  [enabled |-> Bool(TRUE),
   format |-> Str(Format_iso),
   customFormat |-> Str(DefaultCustomFormat),
   timezone |-> Str(<<>>),
   includeInEveryMessage |-> Bool(TRUE),
   prefix |-> Str(DefaultPrefix),
   suffix |-> Str(<<"]">>)]

ValidationError(field, message, value) ==
  [field |-> field, message |-> message, value |-> value]

\* return { valid: errors.length === 0, errors }
ValidationResult(errors) == [valid |-> Len(errors) = 0, errors |-> errors]

\* a check that takes every customFormat for a non-empty string
customFormat_blank_never(v) == Ok(FALSE)

\* config.customFormat.trim() with the typeof guard left out: trim is not
\* a function of null or of a number
customFormat_blank_unguarded(v) ==
  IF v.t = "string" THEN Ok(IsBlank(v.v)) ELSE Throw("TypeError")

\* typeof config.customFormat !== 'string' || config.customFormat.trim() === ''
\* (|| does not evaluate trim() for a value that is not a string)
customFormat_blank(v) ==
  IF v.t # "string" THEN Ok(TRUE) ELSE Ok(IsBlank(v.v))

\* the seven checks in the order of the code; every check appends
validateConfig_errors(cfg) ==
  LET e1 == IF cfg.enabled.t # "boolean"
            THEN <<ValidationError("enabled", "must be a boolean",
                                   cfg.enabled)>>
            ELSE <<>>
      e2 == IF ~(\E i \in 1..Len(VALID_FORMATS) :
                   StrictEq(VALID_FORMATS[i], cfg.format))
            THEN <<ValidationError("format", "must be one of the formats",
                                   cfg.format)>>
            ELSE <<>>
      e3 == IF StrictEq(cfg.format, Str(Format_custom))
               /\ customFormat_blank(cfg.customFormat) = Ok(TRUE)
            THEN <<ValidationError("customFormat", "must be non-empty",
                                   cfg.customFormat)>>
            ELSE <<>>
      e4 == IF cfg.timezone.t # "string"
            THEN <<ValidationError("timezone", "must be a string",
                                   cfg.timezone)>>
            ELSE IF ~StrictEq(cfg.timezone, Str(<<>>))
                    /\ ~isValidTimezone(cfg.timezone)
            THEN <<ValidationError("timezone", "not a valid IANA timezone",
                                   cfg.timezone)>>
            ELSE <<>>
      e5 == IF cfg.includeInEveryMessage.t # "boolean"
            THEN <<ValidationError("includeInEveryMessage",
                                   "must be a boolean",
                                   cfg.includeInEveryMessage)>>
            ELSE <<>>
      e6 == IF cfg.prefix.t # "string"
            THEN <<ValidationError("prefix", "must be a string", cfg.prefix)>>
            ELSE <<>>
      e7 == IF cfg.suffix.t # "string"
            THEN <<ValidationError("suffix", "must be a string", cfg.suffix)>>
            ELSE <<>>
  IN  e1 \o e2 \o e3 \o e4 \o e5 \o e6 \o e7

FirstOf(errors) == IF Len(errors) > 1 THEN <<errors[1]>> ELSE errors

\* a validator that returns at the first failing check
validateConfig_firstError(cfg) ==
  ValidationResult(FirstOf(validateConfig_errors(cfg)))

Reversed(errors) == [i \in 1..Len(errors) |-> errors[Len(errors) + 1 - i]]

\* a validator that puts each error in front of the list (unshift)
validateConfig_unshift(cfg) ==
  ValidationResult(Reversed(validateConfig_errors(cfg)))

validateConfig(cfg) == ValidationResult(validateConfig_errors(cfg))

\* a call of validateConfig: the only operation of the body that can throw
\* is trim(), evaluated when format is 'custom'
validateConfig_call(cfg) ==
  IF StrictEq(cfg.format, Str(Format_custom))
     /\ customFormat_blank(cfg.customFormat).st = "throw"
  THEN customFormat_blank(cfg.customFormat)
  ELSE Ok(validateConfig(cfg))

\* { ...userConfig, ...DEFAULT_CONFIG }: the spreads in the wrong order
loadConfig_defaultsLast(userConfig) == DEFAULT_CONFIG

\* {...DEFAULT_CONFIG, ...userConfig}: spreading null, undefined or a
\* number adds no property
loadConfig(userConfig) ==
  IF userConfig.t \in {"undefined", "null"} THEN DEFAULT_CONFIG
  ELSE [f \in Fields |->
          IF userConfig.t = "object" /\ f \in DOMAIN userConfig.v
          THEN userConfig.v[f] ELSE DEFAULT_CONFIG[f]]

\* the address of the module-level object DEFAULT_CONFIG
DefaultAddr == 1

\* the object a call builds from the DEFAULT_CONFIG object as it is now
loadConfig_object(defaults, userConfig) ==
  IF userConfig.t \in {"undefined", "null"} THEN defaults
  ELSE [f \in Fields |->
          IF userConfig.t = "object" /\ f \in DOMAIN userConfig.v
          THEN userConfig.v[f] ELSE defaults[f]]

\* return DEFAULT_CONFIG itself when there is nothing to merge
loadConfig_shared(h, userConfig) ==
  IF userConfig.t \in {"undefined", "null"}
  THEN [ref |-> DefaultAddr, heap |-> h]
  ELSE [ref |-> Len(h) + 1,
        heap |-> Append(h, loadConfig_object(h[DefaultAddr], userConfig))]

\* { ...DEFAULT_CONFIG } and { ...DEFAULT_CONFIG, ...userConfig } are object
\* literals: each evaluation creates an object
loadConfig_new(h, userConfig) ==
  [ref |-> Len(h) + 1,
   heap |-> Append(h, loadConfig_object(h[DefaultAddr], userConfig))]

\* ------------------------------------------------------------------------
\* The configuration files the factory may find
\* ------------------------------------------------------------------------
\* values a configuration file gives to a field
FieldValues(f) ==
  CASE f = "enabled" -> {Bool(FALSE), Num(0), Str(<<"y", "e", "s">>)}
    [] f = "format" ->
         {Str(Format_locale), Str(Format_custom), Str(<<"b", "a", "d">>)}
    [] f = "customFormat" -> {Num(5), Str(<<"H", ":", "m", "m">>)}
    [] f = "timezone" -> {Str(TZ_NewYork), Str(TZ_Invalid)}
    [] f = "includeInEveryMessage" -> {Bool(FALSE), Num(1)}
    [] f = "prefix" -> {Null}
    [] f = "suffix" -> {Str(<<">">>)}

AllFieldValues == UNION {FieldValues(f) : f \in Fields}

\* objects that override at most MaxOverrides fields
PartialConfigs ==
  UNION {{u \in [S -> AllFieldValues] : \A f \in S : u[f] \in FieldValues(f)} :
         S \in {T \in SUBSET Fields : Cardinality(T) <= MaxOverrides}}

\* objects that override one field
SingleOverrides ==
  UNION {{[g \in {f} |-> v] : v \in FieldValues(f)} : f \in Fields}

\* objects that select the custom format and give its template, the only
\* case in which customFormat is read
CustomFormatFiles ==
  {[format |-> Str(Format_custom), customFormat |-> v] :
     v \in FieldValues("customFormat")}

\* the object {} overrides nothing
EmptyObject == [f \in {} |-> Null]

\* the objects a configuration file of an activation holds
FileConfigs == {EmptyObject} \cup SingleOverrides \cup CustomFormatFiles

\* what JSON.parse returns for a well-formed file
JsonValues == {Null, Num(5)} \cup {Obj(u) : u \in FileConfigs}

\* a candidate path: no file, a file readFileSync cannot read, a file
\* JSON.parse rejects, or a file that parses to a value
NoFile == [t |-> "nofile"]
Unreadable == [t |-> "unreadable"]
BadJson == [t |-> "badjson"]
Parsed(x) == [t |-> "parsed", v |-> x]

FileStates == {NoFile, Unreadable, BadJson} \cup {Parsed(x) : x \in JsonValues}

\* the second candidate path is looked at only when the first gave nothing
SecondFileStates(f1) == IF f1.t = "parsed" THEN {NoFile} ELSE FileStates

\* a loop that gives up at the first path that cannot be read or parsed
loadConfigFromPaths_stop(files, i) ==
  LET parsed == {j \in i..Len(files) : files[j].t = "parsed"}
      first == CHOOSE j \in parsed : \A k \in parsed : j <= k
  IN IF parsed = {} THEN Undefined
     ELSE IF \E k \in i..first : files[k].t \in {"unreadable", "badjson"}
          THEN Undefined
          ELSE files[first].v

\* the loop over possiblePaths from path i on; an exception is caught and
\* the loop continues with the next path
RECURSIVE loadConfigFromPaths(_, _)
loadConfigFromPaths(files, i) ==
  IF i > Len(files) THEN Undefined
  ELSE IF files[i].t = "parsed" THEN files[i].v
  ELSE loadConfigFromPaths(files, i + 1)

\* index.ts and plugin.ts hold the same function
loadConfigFromFile(files) == loadConfigFromPaths(files, 1)

\* ------------------------------------------------------------------------
\* plugin.ts: the inline copies of the configuration and the formatter
\* ------------------------------------------------------------------------
plugin_DEFAULT_CONFIG ==
  [enabled |-> Bool(TRUE),
   format |-> Str(Format_iso),
   customFormat |-> Str(DefaultCustomFormat),
   timezone |-> Str(<<>>),
   includeInEveryMessage |-> Bool(TRUE),
   prefix |-> Str(DefaultPrefix),
   suffix |-> Str(<<"]">>)]

plugin_loadConfig(userConfig) ==
  IF userConfig.t \in {"undefined", "null"} THEN plugin_DEFAULT_CONFIG
  ELSE [f \in Fields |->
          IF userConfig.t = "object" /\ f \in DOMAIN userConfig.v
          THEN userConfig.v[f] ELSE plugin_DEFAULT_CONFIG[f]]

plugin_isValidTimezone(timezone) ==
  IF StrictEq(timezone, Str(<<>>)) THEN TRUE ELSE IntlAccepts(timezone)

plugin_getSystemTimezone == systemTz

plugin_DateTimeFormat(date, timeZone) ==
  IF ~IntlAccepts(timeZone) THEN Throw("RangeError")
  ELSE Ok(ZonedParts(date, IF timeZone.t = "undefined" THEN systemTz
                           ELSE TemplateToString(timeZone)))

plugin_getDateParts(date, timezone) ==
  plugin_DateTimeFormat(date, IF Truthy(timezone) THEN timezone ELSE Undefined)

\* replacements whose one-letter keys were inserted before the longer ones
plugin_replacementKeys_shortFirst ==
  << <<"Y", "Y">>, <<"Y", "Y", "Y", "Y">>, <<"M">>, <<"M", "M">>,
     <<"D">>, <<"D", "D">>, <<"H">>, <<"H", "H">>,
     <<"m">>, <<"m", "m">>, <<"s">>, <<"s", "s">> >>

\* Object.entries(replacements): the keys in insertion order
plugin_replacementKeys ==
  << <<"Y", "Y", "Y", "Y">>, <<"Y", "Y">>, <<"M", "M">>, <<"M">>,
     <<"D", "D">>, <<"D">>, <<"H", "H">>, <<"H">>,
     <<"m", "m">>, <<"m">>, <<"s", "s">>, <<"s">> >>

plugin_replacements(parts) ==
  << padStart(NumToString(parts.year), 4),
     padStart(NumToString(parts.year % 100), 2),
     padStart(NumToString(parts.month), 2), NumToString(parts.month),
     padStart(NumToString(parts.day), 2), NumToString(parts.day),
     padStart(NumToString(parts.hour), 2), NumToString(parts.hour),
     padStart(NumToString(parts.minute), 2), NumToString(parts.minute),
     padStart(NumToString(parts.second), 2), NumToString(parts.second) >>

plugin_formatCustom_replace(parts, format) ==
  IF parts.st = "throw" THEN parts
  ELSE IF format.t # "string" THEN Throw("TypeError")
  ELSE Ok(ReplaceTokens(format.v, plugin_replacementKeys,
                        plugin_replacements(parts.v), 1))

plugin_formatCustom(date, format, timezone) ==
  plugin_formatCustom_replace(plugin_getDateParts(date, timezone), format)

plugin_resolveTimezone(timezone) ==
  IF Truthy(timezone) /\ plugin_isValidTimezone(timezone)
  THEN timezone ELSE Str(plugin_getSystemTimezone)

\* switch (config.format)
plugin_formatTime_switch(date, cfg, timezone) ==
  CASE StrictEq(cfg.format, Str(Format_iso)) -> Ok(toISOString(date))
    [] StrictEq(cfg.format, Str(Format_locale)) ->
         Ok(toLocaleString(date, TemplateToString(timezone)))
    [] StrictEq(cfg.format, Str(Format_custom)) ->
         plugin_formatCustom(date, cfg.customFormat, timezone)
    [] OTHER -> Ok(toISOString(date))

\* return `${config.prefix}${formatted}${config.suffix}`
plugin_formatTime_return(formatted, cfg) ==
  IF formatted.st = "throw" THEN formatted
  ELSE Ok(TemplateToString(cfg.prefix) \o formatted.v
          \o TemplateToString(cfg.suffix))

plugin_formatTime(date, cfg) ==
  plugin_formatTime_return(
    plugin_formatTime_switch(date, cfg,
                             plugin_resolveTimezone(cfg.timezone)),
    cfg)

\* ------------------------------------------------------------------------
\* The host: identifiers, output objects, the wall clock
\* ------------------------------------------------------------------------
NoId == <<>>
MsgIds == {<<"msg", i>> : i \in 1..NumMsgIds}
SessionIds == {<<"ses", i>> : i \in 1..NumSessions}
Outs == 1..NumOut

Part(n, type, text) ==
  [id |-> [kind |-> "part", n |-> n], sessionID |-> <<"ses", 1>>,
   messageID |-> <<"msg", 1>>, type |-> type, text |-> text]

\* the parts the host builds for a message
Shapes(o) ==
  << <<Part(10 * o + 1, "file", <<>>), Part(10 * o + 2, "text", <<"h", "i">>),
       Part(10 * o + 3, "text", <<"y", "o">>)>>,
     <<Part(10 * o + 1, "file", <<>>)>>,
     <<>>,
     <<Part(10 * o + 1, "text", <<"h", "i">>)>> >>

InitialParts(o) == Shapes(o)[((o - 1) % 4) + 1]

\* new Date() at the c-th reading of the clock: one second later each time
Now(c) == Instant(TestDate.day, TestDate.sod + c, TestDate.ms)

NoCall == [fn |-> "none"]

\* outcome of an invocation: "off" (includeInEveryMessage is falsy),
\* "duplicate" (the key was processed), "injected", "appended", or
\* "rejected" (the handler's promise rejects)
NoInvocation ==
  [hook |-> "none", sessionID |-> NoId, messageID |-> NoId, out |-> 0,
   outcome |-> "none"]

Invocation(hook, sessionID, messageID, o, outcome) ==
  [hook |-> hook, sessionID |-> sessionID, messageID |-> messageID,
   out |-> o, outcome |-> outcome]

InitPlugin ==
  /\ phase = "init"
  /\ entry = "none"
  /\ config = DEFAULT_CONFIG
  /\ hooks = {}
  /\ warnings = <<>>
  /\ processedMessages = {}
  /\ outputs = [o \in Outs |-> InitialParts(o)]
  /\ append = [o \in Outs |-> Undefined]
  /\ clock = 0
  /\ last = NoInvocation
  /\ seen = {}
  /\ heap = <<DEFAULT_CONFIG>>
  /\ held = {}
  /\ mutations = 0
  /\ configFiles = <<NoFile, NoFile>>

Init ==
  /\ systemTz = TZ_Tokyo
  /\ InitPlugin
  /\ call = NoCall
  /\ ret = NoCall

\* ------------------------------------------------------------------------
\* plugin.ts: the factory and its 'chat.message' hook
\* ------------------------------------------------------------------------
\* a handler that reads and merges the configuration file when it is invoked
plugin_config_reloaded == plugin_loadConfig(loadConfigFromFile(configFiles))

\* const config: the handlers close over the object the factory merged
plugin_config == config

\* a factory that installs the hook only when enabled is the boolean true
plugin_hooks_strict(cfg) ==
  IF cfg.enabled = Bool(TRUE) THEN {"chat.message"} ELSE {}

plugin_hooks_always(cfg) == {"chat.message"}

\* if (!config.enabled) return {}; otherwise the 'chat.message' hook
plugin_hooks(cfg) == IF ~Truthy(cfg.enabled) THEN {} ELSE {"chat.message"}

plugin(files) ==
  /\ phase = "init"
  /\ config' = plugin_loadConfig(loadConfigFromFile(files))
  /\ hooks' = plugin_hooks(config')
  /\ processedMessages' = {}
  /\ warnings' = <<>>
  /\ entry' = "plugin"
  /\ phase' = "active"
  /\ UNCHANGED <<systemTz, outputs, append, clock, last, seen, call, ret,
                 objectVars, configFiles>>

\* indexes of the parts of type text, in part order
textParts(parts) == {i \in 1..Len(parts) : parts[i].type = "text"}

prependToLastTextPart(parts, timeString) ==
  LET lastText == CHOOSE i \in textParts(parts) :
                    \A j \in textParts(parts) : i >= j
  IN  [parts EXCEPT ![lastText].text = timeString \o <<"\n", "\n">> \o @]

\* firstTextPart.text = `${timeString}\n\n${firstTextPart.text}`
prependToFirstTextPart(parts, timeString) ==
  LET first == CHOOSE i \in textParts(parts) :
                 \A j \in textParts(parts) : i <= j
  IN  [parts EXCEPT ![first].text = timeString \o <<"\n", "\n">> \o @]

pushTimePart(parts, timeString, sessionID, messageID, c) ==
  parts
  \o <<[id |-> [kind |-> "time", n |-> c], sessionID |-> sessionID,
        messageID |-> messageID, type |-> "text", text |-> timeString]>>

\* output.parts.unshift({id: `time-${Date.now()}`, ...})
unshiftTimePart(parts, timeString, sessionID, messageID, c) ==
  <<[id |-> [kind |-> "time", n |-> c], sessionID |-> sessionID,
     messageID |-> messageID, type |-> "text", text |-> timeString]>>
  \o parts

\* the parts after the injection of timeString
injectTime(parts, timeString, sessionID, messageID, c) ==
  IF textParts(parts) # {}
  THEN prependToFirstTextPart(parts, timeString)
  ELSE unshiftTimePart(parts, timeString, sessionID, messageID, c)

plugin_skips_never(cfg) == FALSE

\* if (!config.includeInEveryMessage) return
plugin_skips(cfg) == ~Truthy(cfg.includeInEveryMessage)

\* _input.messageID || _input.sessionID
messageKeyOf(sessionID, messageID) ==
  IF messageID # NoId THEN messageID ELSE sessionID

hasProcessed_never(messageKey) == FALSE

\* processedMessages.has(messageKey)
hasProcessed(messageKey) == messageKey \in processedMessages

\* a Set created by the handler, which forgets the keys of earlier
\* invocations
processedMessages_only(messageKey) == {messageKey}

\* processedMessages.add(messageKey)
processedMessages_add(messageKey) == processedMessages \cup {messageKey}

\* what the handler does with the formatted time, or with the exception
chat_message_inject(timeString, sessionID, messageID, o) ==
  IF timeString.st = "throw"
  THEN /\ last' = Invocation("chat.message", sessionID, messageID, o,
                             "rejected")
       /\ UNCHANGED outputs
  ELSE /\ last' = Invocation("chat.message", sessionID, messageID, o,
                             "injected")
       /\ outputs' = [outputs EXCEPT ![o] =
                        injectTime(@, timeString.v, sessionID, messageID,
                                   clock)]

chat_message(sessionID, messageID, o) ==
  /\ phase = "active"
  /\ "chat.message" \in hooks
  /\ seen' = seen \cup {messageID}
  /\ IF plugin_skips(plugin_config)
     THEN /\ last' = Invocation("chat.message", sessionID, messageID, o, "off")
          /\ UNCHANGED <<processedMessages, outputs, clock>>
     ELSE IF hasProcessed(messageKeyOf(sessionID, messageID))
     THEN /\ last' = Invocation("chat.message", sessionID, messageID, o,
                                "duplicate")
          /\ UNCHANGED <<processedMessages, outputs, clock>>
     ELSE /\ clock < MaxClock
          /\ processedMessages' =
               processedMessages_add(messageKeyOf(sessionID, messageID))
          /\ clock' = clock + 1
          /\ chat_message_inject(plugin_formatTime(Now(clock), plugin_config),
                                 sessionID, messageID, o)
  /\ UNCHANGED <<systemTz, phase, entry, config, hooks, warnings, append,
                 call, ret, objectVars, configFiles>>

\* ------------------------------------------------------------------------
\* index.ts: the factory and its 'tui.prompt.append' hook
\* ------------------------------------------------------------------------
\* validation.errors.map((e) => `${e.field}: ${e.message}`)
warningText(errors) ==
  [i \in 1..Len(errors) |-> <<errors[i].field, errors[i].message>>]

\* if (!validation.valid) console.warn(...)
warn(validation) ==
  IF ~validation.valid THEN <<warningText(validation.errors)>> ELSE <<>>

\* if (!config.enabled) return {}; otherwise the 'tui.prompt.append' hook
TimeRefreshPlugin_hooks(cfg) ==
  IF ~Truthy(cfg.enabled) THEN {} ELSE {"tui.prompt.append"}

TimeRefreshPlugin(files) ==
  /\ phase = "init"
  /\ config' = loadConfig(loadConfigFromFile(files))
  /\ warnings' = warn(validateConfig(config'))
  /\ hooks' = TimeRefreshPlugin_hooks(config')
  /\ processedMessages' = {}
  /\ entry' = "TimeRefreshPlugin"
  /\ phase' = "active"
  /\ UNCHANGED <<systemTz, outputs, append, clock, last, seen, call, ret,
                 objectVars, configFiles>>

\* if (!config.includeInEveryMessage) return
TimeRefreshPlugin_skips(cfg) == ~Truthy(cfg.includeInEveryMessage)

\* what the handler does with the formatted time, or with the exception
tui_prompt_append_set(timeString, o) ==
  IF timeString.st = "throw"
  THEN /\ last' = Invocation("tui.prompt.append", NoId, NoId, o, "rejected")
       /\ UNCHANGED append
  ELSE /\ last' = Invocation("tui.prompt.append", NoId, NoId, o, "appended")
       /\ append' = [append EXCEPT ![o] = Str(timeString.v)]

tui_prompt_append(o) ==
  /\ phase = "active"
  /\ "tui.prompt.append" \in hooks
  /\ IF TimeRefreshPlugin_skips(plugin_config)
     THEN /\ last' = Invocation("tui.prompt.append", NoId, NoId, o, "off")
          /\ UNCHANGED <<append, clock>>
     ELSE /\ clock < MaxClock
          /\ clock' = clock + 1
          /\ tui_prompt_append_set(formatTime(Now(clock), plugin_config), o)
  /\ UNCHANGED <<systemTz, phase, entry, config, hooks, warnings,
                 processedMessages, outputs, seen, call, ret,
                 objectVars, configFiles>>

\* ------------------------------------------------------------------------
\* The plugin in its host
\* ------------------------------------------------------------------------
\* the host calls a factory once, whatever the two candidate paths hold
Activate_plugin ==
  /\ phase = "init"
  /\ \E f1 \in FileStates : \E f2 \in SecondFileStates(f1) :
       plugin(<<f1, f2>>)

Activate_TimeRefreshPlugin ==
  /\ phase = "init"
  /\ \E f1 \in FileStates : \E f2 \in SecondFileStates(f1) :
       TimeRefreshPlugin(<<f1, f2>>)

\* the host fires an event of an installed hook
Host_chat_message ==
  /\ "chat.message" \in hooks
  /\ \E sessionID \in SessionIds, messageID \in MsgIds \cup {NoId}, o \in Outs :
       chat_message(sessionID, messageID, o)

Host_tui_prompt_append ==
  /\ "tui.prompt.append" \in hooks
  /\ \E o \in Outs : tui_prompt_append(o)

Next ==
  \/ Activate_plugin
  \/ Activate_TimeRefreshPlugin
  \/ Host_chat_message
  \/ Host_tui_prompt_append

Spec == Init /\ [][Next]_vars

\* ------------------------------------------------------------------------
\* The exported functions called directly
\* ------------------------------------------------------------------------
FmtDates == {TestDate, EarlyDate, LateDate}

FmtTemplates ==
  {Str(DefaultCustomFormat), Str(<<"H", "H", ":", "m", "m">>),
   Str(<<"M", "-", "D", " ", "H", ":", "m", ":", "s">>), Str(<<>>)}

\* the optional timezone argument
FmtTimezones ==
  {Undefined, Str(<<>>), Str(TZ_UTC), Str(TZ_NewYork), Str(TZ_Invalid)}

FmtConfigs == {loadConfig(Obj(u)) : u \in PartialConfigs}

InitFmt ==
  /\ systemTz \in ValidZones
  /\ InitPlugin
  /\ call = NoCall
  /\ ret = NoCall

Call_formatCustom ==
  /\ call.fn = "none"
  /\ \E date \in FmtDates, format \in FmtTemplates, timezone \in FmtTimezones :
       /\ call' = [fn |-> "formatCustom", date |-> date, format |-> format,
                timezone |-> timezone]
       /\ ret' = formatCustom(date, format, timezone)
       /\ UNCHANGED <<systemTz, pluginVars, objectVars, configFiles>>

Call_plugin_formatCustom ==
  /\ call.fn = "none"
  /\ \E date \in FmtDates, format \in FmtTemplates, timezone \in FmtTimezones :
       /\ call' = [fn |-> "plugin_formatCustom", date |-> date,
                format |-> format, timezone |-> timezone]
       /\ ret' = plugin_formatCustom(date, format, timezone)
       /\ UNCHANGED <<systemTz, pluginVars, objectVars, configFiles>>

Call_createTimeContext ==
  /\ call.fn = "none"
  /\ \E date \in FmtDates, timezone \in FmtTimezones :
       /\ call' = [fn |-> "createTimeContext", date |-> date,
                timezone |-> timezone]
       /\ ret' = createTimeContext(date, timezone)
       /\ UNCHANGED <<systemTz, pluginVars, objectVars, configFiles>>

Call_formatTime ==
  /\ call.fn = "none"
  /\ \E date \in FmtDates, cfg \in FmtConfigs :
       /\ call' = [fn |-> "formatTime", date |-> date, config |-> cfg]
       /\ ret' = formatTime(date, cfg)
       /\ UNCHANGED <<systemTz, pluginVars, objectVars, configFiles>>

Call_plugin_formatTime ==
  /\ call.fn = "none"
  /\ \E date \in FmtDates, cfg \in FmtConfigs :
       /\ call' = [fn |-> "plugin_formatTime", date |-> date, config |-> cfg]
       /\ ret' = plugin_formatTime(date, cfg)
       /\ UNCHANGED <<systemTz, pluginVars, objectVars, configFiles>>

Call_plugin_loadConfig ==
  /\ call.fn = "none"
  /\ \E userConfig \in {Undefined, Null} \cup {Obj(u) : u \in PartialConfigs} :
       /\ call' = [fn |-> "plugin_loadConfig", userConfig |-> userConfig]
       /\ ret' = Ok(plugin_loadConfig(userConfig))
       /\ UNCHANGED <<systemTz, pluginVars, objectVars, configFiles>>

Call_plugin_isValidTimezone ==
  /\ call.fn = "none"
  /\ \E timezone \in FmtTimezones \ {Undefined} :
       /\ call' = [fn |-> "plugin_isValidTimezone", timezone |-> timezone]
       /\ ret' = Ok(plugin_isValidTimezone(timezone))
       /\ UNCHANGED <<systemTz, pluginVars, objectVars, configFiles>>

\* the caller drops the result and is ready for the next call
Return ==
  /\ call.fn # "none"
  /\ call' = NoCall
  /\ ret' = NoCall
  /\ UNCHANGED <<systemTz, pluginVars, objectVars, configFiles>>

NextFmt ==
  \/ Return
  \/ Call_formatCustom
  \/ Call_plugin_formatCustom
  \/ Call_createTimeContext
  \/ Call_formatTime
  \/ Call_plugin_formatTime
  \/ Call_plugin_loadConfig
  \/ Call_plugin_isValidTimezone

SpecFmt == InitFmt /\ [][NextFmt]_vars

\* ------------------------------------------------------------------------
\* formatCustom called on token templates
\* ------------------------------------------------------------------------
\* the characters of a template: the six token letters and two characters
\* that belong to no token
TemplateChars == {"Y", "M", "D", "H", "m", "s", "-", "T"}

Run(c, n) == [i \in 1..n |-> c]

\* the templates made of at most k runs
RECURSIVE Templates(_)
Templates(k) ==
  IF k = 0 THEN {<<>>}
  ELSE Templates(k - 1)
       \cup {t \o Run(c, n) :
               t \in Templates(k - 1), c \in TemplateChars, n \in 1..MaxRunLen}

TokenTemplates == Templates(MaxRuns)

TokenDates == {TestDate, EarlyDate}

Call_formatCustom_template ==
  /\ call.fn = "none"
  /\ \E date \in TokenDates, template \in TokenTemplates :
       /\ call' = [fn |-> "formatCustom", date |-> date,
                   format |-> Str(template), timezone |-> Str(TZ_UTC)]
       /\ ret' = formatCustom(date, Str(template), Str(TZ_UTC))
       /\ UNCHANGED <<systemTz, pluginVars, objectVars, configFiles>>

\* the values a calendar component takes
ComponentRange ==
  [year |-> 0..9999, month |-> 1..12, day |-> 1..31, hour |-> 0..23,
   minute |-> 0..59, second |-> 0..59]

\* the components of the test instant, one of them taken through its range
TokenParts ==
  UNION {{[ZonedParts(TestDate, TZ_UTC) EXCEPT ![f] = v] :
            v \in ComponentRange[f]} : f \in DOMAIN ComponentRange}

\* formatCustom builds its replacements from the parts getDateParts gave
Call_replacements ==
  /\ call.fn = "none"
  /\ \E parts \in TokenParts :
       /\ call' = [fn |-> "replacements", parts |-> parts]
       /\ ret' = Ok(replacements(parts))
       /\ UNCHANGED <<systemTz, pluginVars, objectVars, configFiles>>

NextTokens ==
  \/ Return
  \/ Call_formatCustom_template
  \/ Call_replacements

SpecTokens == Init /\ [][NextTokens]_vars

\* ------------------------------------------------------------------------
\* loadConfig and the objects it returns
\* ------------------------------------------------------------------------
\* the arguments of loadConfig: none, null, and a partial configuration
LoadArguments == {Undefined, Null, Obj([enabled |-> Bool(FALSE)])}

\* the value a caller assigns to a field of an object it holds
MutationValue(f) == CHOOSE v \in FieldValues(f) : TRUE

Call_loadConfig ==
  /\ call.fn = "none"
  /\ Len(heap) <= MaxObjects
  /\ \E userConfig \in LoadArguments :
       /\ call' = [fn |-> "loadConfig", userConfig |-> userConfig]
       /\ ret' = Ok(loadConfig_new(heap, userConfig).ref)
       /\ heap' = loadConfig_new(heap, userConfig).heap
       /\ held' = held \cup {ret'.v}
  /\ UNCHANGED <<systemTz, pluginVars, mutations, configFiles>>

\* config.enabled = false, and the like, on an object loadConfig returned
Mutate ==
  /\ call.fn = "none"
  /\ mutations < MaxMutations
  /\ \E r \in held, f \in Fields :
       heap' = [heap EXCEPT ![r] = [@ EXCEPT ![f] = MutationValue(f)]]
  /\ mutations' = mutations + 1
  /\ UNCHANGED <<systemTz, pluginVars, call, ret, held, configFiles>>

NextConfig ==
  \/ Return
  \/ Call_loadConfig
  \/ Mutate

SpecConfig == Init /\ [][NextConfig]_vars

\* ------------------------------------------------------------------------
\* loadConfig and validateConfig called on configurations
\* ------------------------------------------------------------------------
\* the fields of TimeRefreshConfig in the order of their declaration
FieldOrder ==
  <<"enabled", "format", "customFormat", "timezone",
    "includeInEveryMessage", "prefix", "suffix">>

\* the object u with the property f set to v
WithProperty(u, f, v) ==
  [g \in DOMAIN u \cup {f} |-> IF g = f THEN v ELSE u[g]]

\* the values a partial configuration gives to a field it contains
MergeValues(f) == FieldValues(f) \cup {Undefined}

\* the partial configurations over the first k fields
RECURSIVE Partials(_)
Partials(k) ==
  IF k = 0 THEN {EmptyObject}
  ELSE Partials(k - 1)
       \cup {WithProperty(u, FieldOrder[k], v) :
               u \in Partials(k - 1), v \in MergeValues(FieldOrder[k])}

MergeArguments ==
  {Undefined, Null} \cup {Obj(u) : u \in Partials(Len(FieldOrder))}

\* the values of a field of a configuration given to validateConfig
ValidateValues(f) ==
  {DEFAULT_CONFIG[f], Null, Num(5)} \cup FieldValues(f)
  \cup (IF f = "customFormat" THEN {Str(<<>>), Str(<<" ">>)} ELSE {})

\* the complete configurations that differ from the defaults in the first
\* k fields
RECURSIVE Configs(_)
Configs(k) ==
  IF k = 0 THEN {DEFAULT_CONFIG}
  ELSE {[c EXCEPT ![FieldOrder[k]] = v] :
          c \in Configs(k - 1), v \in ValidateValues(FieldOrder[k])}

ValidateConfigs == Configs(Len(FieldOrder))

Call_loadConfig_merge ==
  /\ call.fn = "none"
  /\ \E userConfig \in MergeArguments :
       /\ call' = [fn |-> "loadConfig", userConfig |-> userConfig]
       /\ ret' = Ok(loadConfig(userConfig))
  /\ UNCHANGED <<systemTz, pluginVars, objectVars, configFiles>>

Call_validateConfig ==
  /\ call.fn = "none"
  /\ \E cfg \in ValidateConfigs :
       /\ call' = [fn |-> "validateConfig", config |-> cfg]
       /\ ret' = validateConfig_call(cfg)
  /\ UNCHANGED <<systemTz, pluginVars, objectVars, configFiles>>

NextValidate ==
  \/ Return
  \/ Call_loadConfig_merge
  \/ Call_validateConfig

SpecValidate == Init /\ [][NextValidate]_vars

\* ------------------------------------------------------------------------
\* plugin.ts: several activations of the factory in one host
\* ------------------------------------------------------------------------
\* a Set created when the module is loaded and used by every activation
plugin_moduleSet(h) ==
  IF Len(h) > DefaultAddr THEN [ref |-> DefaultAddr + 1, heap |-> h]
  ELSE [ref |-> Len(h) + 1,
        heap |-> Append(h, [kind |-> "Set", items |-> {}])]

\* const processedMessages = new Set<string>() in the body of the factory
plugin_newSet(h) ==
  [ref |-> Len(h) + 1, heap |-> Append(h, [kind |-> "Set", items |-> {}])]

\* the object the factory returns: {} when the plugin is disabled, else the
\* 'chat.message' handler, a closure over config and processedMessages
plugin_Hooks(h, cfg) ==
  IF plugin_hooks(cfg) = {}
  THEN Append(h, [kind |-> "Hooks", hooks |-> {}])
  ELSE Append(plugin_newSet(h).heap,
              [kind |-> "Hooks", hooks |-> plugin_hooks(cfg), config |-> cfg,
               processedMessages |-> plugin_newSet(h).ref])

\* the configuration files of the directories the host activates
ActivationFiles ==
  {NoFile, Parsed(Obj([enabled |-> Bool(FALSE)])),
   Parsed(Obj([includeInEveryMessage |-> Bool(FALSE)]))}

\* the host calls the factory and keeps the hooks it returns
Activate_plugin_Hooks ==
  /\ Cardinality(held) < MaxActivations
  /\ \E f1 \in ActivationFiles :
       heap' = plugin_Hooks(heap,
                            plugin_loadConfig(loadConfigFromFile(<<f1, NoFile>>)))
  /\ held' = held \cup {Len(heap')}
  /\ UNCHANGED <<systemTz, pluginVars, call, ret, mutations, configFiles>>

\* the guard of the handler of the hooks object at address self
GuardOf(h, self) == h[h[self].processedMessages].items

\* the 'chat.message' handler of the hooks object at address self
Hooks_chat_message(self, sessionID, messageID, o) ==
  /\ call' = [fn |-> "chat.message", self |-> self]
  /\ seen' = seen \cup {messageID}
  /\ IF plugin_skips(heap[self].config)
     THEN /\ last' = Invocation("chat.message", sessionID, messageID, o, "off")
          /\ UNCHANGED <<heap, outputs, clock>>
     ELSE IF messageKeyOf(sessionID, messageID) \in GuardOf(heap, self)
     THEN /\ last' = Invocation("chat.message", sessionID, messageID, o,
                                "duplicate")
          /\ UNCHANGED <<heap, outputs, clock>>
     ELSE /\ clock < MaxClock
          /\ heap' = [heap EXCEPT ![heap[self].processedMessages].items =
                        @ \cup {messageKeyOf(sessionID, messageID)}]
          /\ clock' = clock + 1
          /\ chat_message_inject(plugin_formatTime(Now(clock),
                                                   heap[self].config),
                                 sessionID, messageID, o)
  /\ UNCHANGED <<systemTz, phase, entry, config, hooks, warnings,
                 processedMessages, append, ret, held, mutations,
                 configFiles>>

\* the host fires 'chat.message' on one of the hooks objects it holds, with
\* the output of the message it is sending
Host_Hooks_chat_message ==
  \E self \in held :
    /\ "chat.message" \in heap[self].hooks
    /\ \E sessionID \in SessionIds, messageID \in MsgIds \cup {NoId} :
         Hooks_chat_message(self, sessionID, messageID, 1)

NextActivations ==
  \/ Activate_plugin_Hooks
  \/ Host_Hooks_chat_message

SpecActivations == Init /\ [][NextActivations]_vars

\* ------------------------------------------------------------------------
\* The plugin in a host whose configuration file is edited
\* ------------------------------------------------------------------------
\* what an editor leaves at the first candidate path
WrittenFiles ==
  {NoFile, Parsed(Obj([format |-> Str(Format_locale)])),
   Parsed(Obj([includeInEveryMessage |-> Bool(FALSE)]))}

Host_writes_file ==
  /\ \E f \in WrittenFiles \ {configFiles[1]} :
       configFiles' = <<f, configFiles[2]>>
  /\ UNCHANGED <<systemTz, pluginVars, call, ret, objectVars>>

\* the host calls a factory once, on the files as they are then
Activate_plugin_files ==
  /\ phase = "init"
  /\ plugin(configFiles)

Activate_TimeRefreshPlugin_files ==
  /\ phase = "init"
  /\ TimeRefreshPlugin(configFiles)

NextFiles ==
  \/ Host_writes_file
  \/ Activate_plugin_files
  \/ Activate_TimeRefreshPlugin_files
  \/ Host_chat_message
  \/ Host_tui_prompt_append

SpecFiles == Init /\ [][NextFiles]_vars

\* ------------------------------------------------------------------------
\* The factories on the candidate files the host's user left
\* ------------------------------------------------------------------------
\* before the plugin is activated either candidate path may come to hold
\* anything
Host_writes_candidate ==
  /\ phase = "init"
  /\ \E i \in 1..2 : \E f \in FileStates \ {configFiles[i]} :
       configFiles' = [configFiles EXCEPT ![i] = f]
  /\ UNCHANGED <<systemTz, pluginVars, call, ret, objectVars>>

NextLoad ==
  \/ Host_writes_candidate
  \/ Activate_plugin_files
  \/ Activate_TimeRefreshPlugin_files

SpecLoad == Init /\ [][NextLoad]_vars

\* ------------------------------------------------------------------------
\* Properties of the hooks and the factories (specification Spec)
\* ------------------------------------------------------------------------
\* the hook name a factory returns when the plugin is enabled
HookOf(e) == IF e = "plugin" THEN "chat.message" ELSE "tui.prompt.append"

OriginalOutputs == [o \in Outs |-> InitialParts(o)]

IsPrefixOf(p, t) == Len(p) <= Len(t) /\ SubSeq(t, 1, Len(p)) = p
IsSuffixOf(p, t) ==
  Len(p) <= Len(t) /\ SubSeq(t, Len(t) - Len(p) + 1, Len(t)) = p

\* the step is a 'chat.message' invocation that went past both guards and
\* formatted the time
InjectionStep ==
  /\ last'.hook = "chat.message"
  /\ last'.outcome = "injected"
  /\ processedMessages' # processedMessages

\* C1: an invocation of 'chat.message' that carries a message identifier an
\* earlier invocation of the activation already carried changes no part of
\* any output; only the first invocation with an identifier can mutate.
C1_Idempotent ==
  [][(last'.hook = "chat.message" /\ last'.messageID # NoId
      /\ last'.messageID \in seen)
     => outputs' = outputs]_vars

\* C1 witness: msg 1 created the time part of an output, another identifier
\* stamped that output afterwards, and msg 1 was then invoked again on that
\* output and found to be a duplicate.
C1_Witness ==
  /\ last.hook = "chat.message"
  /\ last.outcome = "duplicate"
  /\ last.messageID = <<"msg", 1>>
  /\ Cardinality(processedMessages) >= 2
  /\ Len(outputs[last.out]) >= 1
  /\ outputs[last.out][1].id.kind = "time"
  /\ outputs[last.out][1].messageID = <<"msg", 1>>

\* the configuration formats the time without throwing
FormatsNormally == plugin_formatTime(Now(clock), config).st = "ok"

\* the message of the invocation has not had the time injected before: a
\* message with an identifier is known by it, one without by its output
NotStampedBefore ==
  IF last'.messageID # NoId
  THEN last'.messageID \notin seen
  ELSE outputs[last'.out] = InitialParts(last'.out)

\* C2 (as claimed): with enabled = true and includeInEveryMessage = true,
\* the first invocation of 'chat.message' for a message, with or without a
\* messageID, injects the time into its output.
C2_EveryMessageStamped ==
  [][(/\ last'.hook = "chat.message"
      /\ StrictEq(config.enabled, Bool(TRUE))
      /\ StrictEq(config.includeInEveryMessage, Bool(TRUE))
      /\ FormatsNormally
      /\ NotStampedBefore)
     => outputs'[last'.out] # outputs[last'.out]]_vars

\* C3 (as claimed): no invocation of an installed hook rejects.
C3_HookNeverRejects == last.outcome # "rejected"

\* C4: after a factory ran on a configuration with enabled = false, no hook
\* is installed, no hook has been invoked and no output has been mutated.
C4_DisabledInstallsNothing ==
  (phase = "active" /\ StrictEq(config.enabled, Bool(FALSE)))
  => /\ hooks = {}
     /\ last = NoInvocation
     /\ outputs = OriginalOutputs
     /\ \A o \in Outs : append[o].t = "undefined"
     /\ processedMessages = {}

\* C4 witness: a factory has run on a file that sets enabled to false.
C4_Witness ==
  /\ phase = "active"
  /\ entry = "plugin"
  /\ StrictEq(config.enabled, Bool(FALSE))
  /\ hooks = {}

\* C5: with includeInEveryMessage = false and the plugin enabled, the hook
\* is installed and, however often it was invoked, every output, every
\* append field and the idempotency guard are as they were at activation.
C5_IncludeFalseIsNoOp ==
  (phase = "active" /\ Truthy(config.enabled)
   /\ StrictEq(config.includeInEveryMessage, Bool(FALSE)))
  => /\ hooks = {HookOf(entry)}
     /\ outputs = OriginalOutputs
     /\ \A o \in Outs : append[o].t = "undefined"
     /\ processedMessages = {}
     /\ last.outcome \in {"none", "off"}

\* C5 witness: 'chat.message' was invoked with a message identifier while
\* includeInEveryMessage was false.
C5_Witness ==
  /\ StrictEq(config.includeInEveryMessage, Bool(FALSE))
  /\ last.hook = "chat.message"
  /\ last.messageID # NoId
  /\ last.outcome = "off"

C7_InsertsTimePartFirst ==
  [][(InjectionStep /\ textParts(outputs[last'.out]) = {})
     => LET before == outputs[last'.out]
            after == outputs'[last'.out]
            timeString == plugin_formatTime(Now(clock), config).v
        IN  /\ Len(after) = Len(before) + 1
            /\ after[1].type = "text"
            /\ after[1].text = timeString
            /\ IsPrefixOf(TemplateToString(config.prefix), after[1].text)
            /\ IsSuffixOf(TemplateToString(config.suffix), after[1].text)
            /\ \A j \in 1..Len(before) : after[j + 1] = before[j]]_vars

\* C7 witness: an output that held one file part and no text part has had
\* the time part inserted.
C7_Witness ==
  /\ last.hook = "chat.message"
  /\ last.outcome = "injected"
  /\ Len(InitialParts(last.out)) = 1
  /\ textParts(InitialParts(last.out)) = {}
  /\ Len(outputs[last.out]) = 2
  /\ outputs[last.out][1].id.kind = "time"

\* C8 (as claimed): when the merged configuration fails validation, the
\* factory has logged a warning and has returned the hooks that the enabled
\* flag calls for.
C8_InvalidConfigWarns ==
  (phase = "active" /\ ~validateConfig(config).valid)
  => /\ Len(warnings) = 1
     /\ hooks = IF Truthy(config.enabled) THEN {HookOf(entry)} ELSE {}

\* C18: an identifier enters the idempotency guard only after the output of
\* its message has been changed: every identifier a step adds to the guard
\* is the key of the invocation of that step, and that invocation has put
\* the time into its output; an invocation that fails before changing the
\* output adds nothing.
C18_RecordedOnlyAfterInjection ==
  [][\A k \in processedMessages' \ processedMessages :
       /\ last'.hook = "chat.message"
       /\ k = messageKeyOf(last'.sessionID, last'.messageID)
       /\ last'.outcome = "injected"
       /\ outputs'[last'.out] # outputs[last'.out]]_vars

\* C19: the idempotency guard only grows during an activation: no hook
\* invocation removes an identifier, and each invocation adds at most one.
C19_GuardOnlyGrows ==
  [][phase = "active"
     => /\ processedMessages \subseteq processedMessages'
        /\ Cardinality(processedMessages' \ processedMessages) <= 1]_vars

\* two messages have been stamped and both identifiers are in the guard
C19_Witness ==
  /\ phase = "active"
  /\ last.outcome = "injected"
  /\ Cardinality(processedMessages) = 2

\* the step is an invocation of 'chat.message' by an activation that stamps
\* (includeInEveryMessage is truthy)
StampingInvocation ==
  /\ last'.hook = "chat.message"
  /\ entry = "plugin"
  /\ Truthy(config.includeInEveryMessage)

\* C21 (as claimed): the handler holds no await, so the invocations the
\* host starts for one identifier run one after the other in the order of
\* their calls, whatever the host awaits; of these exactly one changes the
\* output: the one that finds the guard without the identifier changes it,
\* and every other one leaves all outputs as they are.
C21_ExactlyOneMutates ==
  [][StampingInvocation
     => IF messageKeyOf(last'.sessionID, last'.messageID) \in processedMessages
        THEN outputs' = outputs
        ELSE outputs'[last'.out] # outputs[last'.out]]_vars

\* C27: a configuration validateConfig accepts is formatted without an
\* exception: formatTime returns a string for it at every instant, in each
\* of the three formats.
C27_ValidConfigFormats ==
  (call.fn = "formatTime" /\ validateConfig(call.config).valid)
  => /\ ret.st = "ok"
     /\ ret.v \in Seq(STRING)

\* an accepted configuration with the custom format was formatted
C27_Witness ==
  /\ call.fn = "formatTime"
  /\ validateConfig(call.config).valid
  /\ call.config.format = Str(Format_custom)
  /\ call.config.customFormat = Str(<<"H", ":", "m", "m">>)
  /\ ret.st = "ok"
  /\ Len(ret.v) > 0

\* both return the same value or both raise the same error
SameResult(a, b) == a.st = b.st /\ a.v = b.v

\* C28: the inline copies of plugin.ts behave as the library functions: on
\* every input loadConfig, isValidTimezone, formatTime and formatCustom of
\* plugin.ts return what the exported function returns, or raise the same
\* error, tokens being substituted in the same order.
C28_InlineCopiesAgree ==
  /\ call.fn = "formatTime"
       => SameResult(ret, plugin_formatTime(call.date, call.config))
  /\ call.fn = "plugin_formatTime"
       => SameResult(ret, formatTime(call.date, call.config))
  /\ call.fn = "formatCustom"
       => SameResult(ret, plugin_formatCustom(call.date, call.format,
                                              call.timezone))
  /\ call.fn = "plugin_formatCustom"
       => SameResult(ret, formatCustom(call.date, call.format, call.timezone))
  /\ call.fn = "plugin_loadConfig"
       => ret.v = loadConfig(call.userConfig)
  /\ call.fn = "plugin_isValidTimezone"
       => ret.v = isValidTimezone(call.timezone)

\* the inline formatTime was called with the custom format on a template
\* in which a short token follows a long one
C28_Witness ==
  /\ call.fn = "plugin_formatTime"
  /\ call.config.format = Str(Format_custom)
  /\ call.config.customFormat = DEFAULT_CONFIG.customFormat
  /\ call.config.timezone = Str(TZ_NewYork)
  /\ ret.st = "ok"
  /\ ret = formatTime(call.date, call.config)

\* the configuration with prefix and suffix emptied
Bare(cfg) == [cfg EXCEPT !.prefix = Str(<<>>), !.suffix = Str(<<>>)]

\* C30: prefix and suffix are inserted verbatim: what formatTime returns is
\* the prefix, then what it returns for the same configuration without
\* prefix and suffix, then the suffix, in every format; no token letter of
\* the prefix or of the suffix is substituted.
C30_PrefixSuffixVerbatim ==
  /\ (call.fn = "formatTime" /\ ret.st = "ok")
       => /\ formatTime(call.date, Bare(call.config)).st = "ok"
          /\ ret.v = TemplateToString(call.config.prefix)
                       \o formatTime(call.date, Bare(call.config)).v
                       \o TemplateToString(call.config.suffix)
  /\ (call.fn = "plugin_formatTime" /\ ret.st = "ok")
       => /\ plugin_formatTime(call.date, Bare(call.config)).st = "ok"
          /\ ret.v = TemplateToString(call.config.prefix)
                       \o plugin_formatTime(call.date, Bare(call.config)).v
                       \o TemplateToString(call.config.suffix)

\* the custom format with the default prefix, which holds the token letter m
C30_Witness ==
  /\ call.fn = "formatTime"
  /\ call.config.format = Str(Format_custom)
  /\ call.config.prefix = Str(DefaultPrefix)
  /\ \E i \in 1..Len(DefaultPrefix) : DefaultPrefix[i] = "m"
  /\ ret.st = "ok"
  /\ SubSeq(ret.v, 1, Len(DefaultPrefix)) = DefaultPrefix
  /\ ret.v[Len(ret.v)] = "]"

\* ------------------------------------------------------------------------
\* Properties of the replacements (specification SpecTokens)
\* ------------------------------------------------------------------------
\* the number a string of decimal digits writes
DigitValue(c) == CHOOSE d \in 0..9 : Digit(d) = c

RECURSIVE ParseDigits(_)
ParseDigits(s) ==
  IF s = <<>> THEN 0
  ELSE ParseDigits(SubSeq(s, 1, Len(s) - 1)) * 10 + DigitValue(s[Len(s)])

IsDigits(s) == \A i \in 1..Len(s) : s[i] \in {Digit(d) : d \in 0..9}

\* s writes n in w digits, with leading zeros
PaddedTo(s, n, w) == Len(s) = w /\ IsDigits(s) /\ ParseDigits(s) = n

\* s writes n in decimal without a leading zero
Unpadded(s, n) ==
  /\ Len(s) >= 1
  /\ IsDigits(s)
  /\ ParseDigits(s) = n
  /\ (Len(s) > 1 => s[1] # "0")

PaddedPair(padded, unpadded, n) ==
  /\ PaddedTo(padded, n, 2)
  /\ (n < 10 => padded[1] = "0")
  /\ Unpadded(unpadded, n)
  /\ ParseDigits(padded) = ParseDigits(unpadded)

\* C23: for components in their ranges, YYYY is the year in exactly four
\* digits, YY is year mod 100 in exactly two, MM DD HH mm ss are the
\* component in exactly two digits with a leading zero below 10, M D H m s
\* are the component in decimal without a leading zero, and a padded token
\* writes the same number as its unpadded counterpart.
C23_TokenWidthsAndValues ==
  call.fn = "replacements"
    => /\ PaddedTo(ret.v[1], call.parts.year, 4)
       /\ PaddedTo(ret.v[2], call.parts.year % 100, 2)
       /\ PaddedPair(ret.v[3], ret.v[4], call.parts.month)
       /\ PaddedPair(ret.v[5], ret.v[6], call.parts.day)
       /\ PaddedPair(ret.v[7], ret.v[8], call.parts.hour)
       /\ PaddedPair(ret.v[9], ret.v[10], call.parts.minute)
       /\ PaddedPair(ret.v[11], ret.v[12], call.parts.second)

\* the year 7: YYYY is 0007 and YY is 07
C23_Witness ==
  /\ call.fn = "replacements"
  /\ call.parts.year = 7
  /\ ret.v[1] = <<"0", "0", "0", "7">>
  /\ ret.v[2] = <<"0", "7">>

\* the line breaks of a text; the host's texts and the time strings hold
\* none, and each prepending adds two
Breaks(text) == Cardinality({i \in 1..Len(text) : text[i] = "\n"})

\* the number of times the hook wrote to a list of parts: the parts it
\* inserted and the time strings it prepended
RECURSIVE Writes(_)
Writes(parts) ==
  IF parts = <<>> THEN 0
  ELSE (IF Head(parts).id.kind = "time" THEN 1 ELSE 0)
       + Breaks(Head(parts).text) \div 2
       + Writes(Tail(parts))

RECURSIVE WritesUpTo(_)
WritesUpTo(o) == IF o = 0 THEN 0 ELSE Writes(outputs[o]) + WritesUpTo(o - 1)

\* the keys of the identifiers the hook was invoked with
KeysSeen ==
  {messageKeyOf(sessionID, messageID) :
     sessionID \in SessionIds, messageID \in seen}

FalsyValues == {Undefined, Null, Bool(FALSE), Num(0), Str(<<>>)}

\* C26: the factory returns its hook exactly when the merged enabled value
\* is truthy and nothing exactly when it is falsy, whatever validateConfig
\* says: a truthy value that is no boolean is reported as an error and still
\* installs the hook, a falsy value that is no boolean disables the plugin.
C26_EnabledByTruthiness ==
  phase = "active"
  => /\ config.enabled \in FalsyValues => hooks = {}
     /\ config.enabled \notin FalsyValues => hooks = {HookOf(entry)}
     /\ config.enabled.t # "boolean" => ~validateConfig(config).valid

\* enabled is the string "yes": the hook of plugin.ts is installed although
\* validateConfig rejects the configuration
C26_Witness ==
  /\ phase = "active"
  /\ entry = "plugin"
  /\ config.enabled = Str(<<"y", "e", "s">>)
  /\ ~validateConfig(config).valid
  /\ hooks = {"chat.message"}

\* an invocation of 'tui.prompt.append' that got past the
\* includeInEveryMessage test
AppendingInvocation ==
  /\ entry = "TimeRefreshPlugin"
  /\ last'.hook = "tui.prompt.append"
  /\ Truthy(config.includeInEveryMessage)

\* C29 (as claimed): 'tui.prompt.append' keeps no state: every invocation
\* with includeInEveryMessage true sets output.append to exactly the time
\* string formatted at that invocation, whatever output.append held, and
\* touches nothing else.
C29_AppendReplaced ==
  [][AppendingInvocation
     => /\ formatTime(Now(clock), config).st = "ok"
        /\ append' = [append EXCEPT ![last'.out] =
                        Str(formatTime(Now(clock), config).v)]
        /\ UNCHANGED <<outputs, processedMessages>>]_vars

\* ------------------------------------------------------------------------
\* Properties of the factories on the candidate files (specification SpecLoad)
\* ------------------------------------------------------------------------
Fails(f) == f.t \in {"unreadable", "badjson"}

\* a read or a parse failed while the factory looked for its file: a
\* candidate fails and no candidate before it was returned
FailureOccurred ==
  \E i \in 1..2 : Fails(configFiles[i])
                    /\ \A j \in 1..(i - 1) : configFiles[j].t # "parsed"

\* what the first candidate that can be read and parsed holds
FirstParsed ==
  IF configFiles[1].t = "parsed" THEN configFiles[1].v
  ELSE IF configFiles[2].t = "parsed" THEN configFiles[2].v
  ELSE Undefined

\* C24 (as claimed): whenever a read or parse failure occurs among the
\* candidate files, the factory does not fail and the configuration used is
\* the defaults.
C24_FailureGivesDefaults ==
  (phase = "active" /\ FailureOccurred) => config = DEFAULT_CONFIG

\* C24 (amended): a candidate that cannot be read or parsed is passed over:
\* the factory does not fail, and the configuration used is what the first
\* candidate that can be read and parsed holds, merged field by field over
\* the defaults; it is the defaults when no candidate can be read and parsed.
C24_FailingFilePassedOver ==
  (phase = "active" /\ FailureOccurred)
  => /\ DOMAIN config = Fields
     /\ \A f \in Fields :
          config[f] = IF FirstParsed.t = "object" /\ f \in DOMAIN FirstParsed.v
                      THEN FirstParsed.v[f]
                      ELSE DEFAULT_CONFIG[f]

\* .opencode/time-refresh.json is not JSON, time-refresh.json disables the
\* plugin, and the factory ran
C24_Witness ==
  /\ phase = "active"
  /\ configFiles[1] = BadJson
  /\ configFiles[2] = Parsed(Obj([enabled |-> Bool(FALSE)]))
  /\ config.enabled = Bool(FALSE)
  /\ hooks = {}

\* ------------------------------------------------------------------------
\* Properties of the hooks while the file is edited (specification SpecFiles)
\* ------------------------------------------------------------------------
\* C22: the configuration is fixed at activation: no step after the factory
\* ran changes a field of it, and every invocation decides and formats with
\* it, whatever the configuration file holds by then.
C22_ConfigFixedAtActivation ==
  [][phase = "active"
     => /\ config' = config
        /\ (last' # last /\ last'.outcome = "off")
             => ~Truthy(config.includeInEveryMessage)
        /\ outputs' # outputs
             => outputs'[last'.out]
                  = injectTime(outputs[last'.out],
                               plugin_formatTime(Now(clock), config).v,
                               last'.sessionID, last'.messageID, clock)
        /\ append' # append
             => append'[last'.out] = Str(formatTime(Now(clock), config).v)]_vars

\* the factory ran on the defaults, the file now selects the locale format,
\* and an invocation made since has stamped
C22_Witness ==
  /\ phase = "active"
  /\ config = DEFAULT_CONFIG
  /\ configFiles[1] = Parsed(Obj([format |-> Str(Format_locale)]))
  /\ last.outcome \in {"injected", "appended"}
  /\ clock = MaxClock

\* ------------------------------------------------------------------------
\* Properties of the exported functions (specification SpecFmt)
\* ------------------------------------------------------------------------
\* the zone a timezone argument stands for: itself when it is a non-empty
\* identifier of the database, the system zone otherwise
ExpectedZone(timezone) ==
  IF timezone.t = "string" /\ timezone.v # <<>> /\ timezone.v \in ValidZones
  THEN timezone.v ELSE systemTz

\* the template rendered with the calendar components of a zone
RenderedIn(date, template, zone) ==
  ReplaceTokens(template, FORMAT_TOKENS, replacements(ZonedParts(date, zone)),
                1)

\* C9 (as claimed): formatCustom returns a string for every template and
\* every timezone argument, rendered in the system zone when the argument
\* is empty or is rejected by the timezone database.
C9_FormatCustomNeverThrows ==
  call.fn \in {"formatCustom", "plugin_formatCustom"}
  => /\ ret.st = "ok"
     /\ ret.v = RenderedIn(call.date, call.format.v,
                           ExpectedZone(call.timezone))

\* C10: createTimeContext reports, and formatTime renders in, the configured
\* zone when it is a non-empty identifier the database accepts and the
\* system zone otherwise; neither raises RangeError.
C10_TimezoneResolution ==
  /\ call.fn = "createTimeContext"
     => /\ ret.st = "ok"
        /\ ret.v.timezone.t = "string"
        /\ ret.v.timezone.v = ExpectedZone(call.timezone)
        /\ ret.v.local = toLocaleString(call.date, ExpectedZone(call.timezone))
  /\ call.fn = "formatTime"
     => LET cfg == call.config
            zone == ExpectedZone(cfg.timezone)
            pre == TemplateToString(cfg.prefix)
            suf == TemplateToString(cfg.suffix)
        IN  /\ ret.st = "throw" => ret.v # "RangeError"
            /\ StrictEq(cfg.format, Str(Format_locale))
               => /\ ret.st = "ok"
                  /\ ret.v = pre \o toLocaleString(call.date, zone) \o suf
            /\ (StrictEq(cfg.format, Str(Format_custom))
                /\ cfg.customFormat.t = "string")
               => /\ ret.st = "ok"
                  /\ ret.v = pre \o RenderedIn(call.date, cfg.customFormat.v,
                                               zone) \o suf

\* C10 witness: createTimeContext was given an identifier the database
\* rejects and reported the system zone.
C10_Witness ==
  /\ call.fn = "createTimeContext"
  /\ call.timezone.t = "string"
  /\ call.timezone.v = TZ_Invalid
  /\ ret.st = "ok"
  /\ ret.v.timezone.v = systemTz

\* day number of a civil date (proleptic Gregorian calendar)
DaysFromShifted(y, mp, d) ==
  (y \div 400) * 146097
  + (y % 400) * 365 + (y % 400) \div 4 - (y % 400) \div 100
  + (153 * mp + 2) \div 5 + d - 1 - 719468

DaysFromCivil(y, m, d) ==
  DaysFromShifted(IF m <= 2 THEN y - 1 ELSE y, (m + 9) % 12, d)

\* s is YYYY-MM-DDTHH:mm:ss.sssZ and names the instant in UTC
IsIsoOf(s, date) ==
  /\ Len(s) = 24
  /\ s[5] = "-" /\ s[8] = "-" /\ s[11] = "T" /\ s[14] = ":"
  /\ s[17] = ":" /\ s[20] = "." /\ s[24] = "Z"
  /\ \A i \in (1..23) \ {5, 8, 11, 14, 17, 20} :
       \E d \in 0..9 : s[i] = Digit(d)
  /\ ParseDigits(SubSeq(s, 6, 7)) \in 1..12
  /\ ParseDigits(SubSeq(s, 9, 10)) \in 1..31
  /\ ParseDigits(SubSeq(s, 12, 13)) \in 0..23
  /\ ParseDigits(SubSeq(s, 15, 16)) \in 0..59
  /\ ParseDigits(SubSeq(s, 18, 19)) \in 0..59
  /\ DaysFromCivil(ParseDigits(SubSeq(s, 1, 4)), ParseDigits(SubSeq(s, 6, 7)),
                   ParseDigits(SubSeq(s, 9, 10))) = date.day
  /\ ParseDigits(SubSeq(s, 12, 13)) * 3600
     + ParseDigits(SubSeq(s, 15, 16)) * 60
     + ParseDigits(SubSeq(s, 18, 19)) = date.sod
  /\ ParseDigits(SubSeq(s, 21, 23)) = date.ms

\* t is pre, then a body that names the instant in ISO-8601, then suf
IsWrappedIso(t, pre, suf, date) ==
  /\ Len(t) = Len(pre) + 24 + Len(suf)
  /\ IsPrefixOf(pre, t)
  /\ IsSuffixOf(suf, t)
  /\ IsIsoOf(SubSeq(t, Len(pre) + 1, Len(pre) + 24), date)

\* C12: with format "iso", formatTime returns the prefix, the ISO-8601
\* string of the instant in UTC with milliseconds, and the suffix, whatever
\* the timezone field and the system zone are.
C12_IsoIsUtcWrapped ==
  (call.fn \in {"formatTime", "plugin_formatTime"}
   /\ StrictEq(call.config.format, Str(Format_iso)))
  => /\ ret.st = "ok"
     /\ IsWrappedIso(ret.v, TemplateToString(call.config.prefix),
                     TemplateToString(call.config.suffix), call.date)

\* C12 witness: the last millisecond of a UTC day, formatted as "iso" with
\* the timezone field set to New York on a host that is not in UTC.
C12_Witness ==
  /\ call.fn = "formatTime"
  /\ StrictEq(call.config.format, Str(Format_iso))
  /\ StrictEq(call.config.timezone, Str(TZ_NewYork))
  /\ call.date = LateDate
  /\ systemTz = TZ_Tokyo
  /\ ret.st = "ok"
  /\ Len(ret.v) = Len(DefaultPrefix) + 24 + 1

\* ------------------------------------------------------------------------
\* Properties of the token substitution (specification SpecTokens)
\* ------------------------------------------------------------------------
\* the twelve tokens and what each stands for
TokenTable(p) ==
  << <<(<<"Y", "Y", "Y", "Y">>), padStart(NumToString(p.year), 4)>>,
     <<(<<"Y", "Y">>), padStart(NumToString(p.year % 100), 2)>>,
     <<(<<"M", "M">>), padStart(NumToString(p.month), 2)>>,
     <<(<<"M">>), NumToString(p.month)>>,
     <<(<<"D", "D">>), padStart(NumToString(p.day), 2)>>,
     <<(<<"D">>), NumToString(p.day)>>,
     <<(<<"H", "H">>), padStart(NumToString(p.hour), 2)>>,
     <<(<<"H">>), NumToString(p.hour)>>,
     <<(<<"m", "m">>), padStart(NumToString(p.minute), 2)>>,
     <<(<<"m">>), NumToString(p.minute)>>,
     <<(<<"s", "s">>), padStart(NumToString(p.second), 2)>>,
     <<(<<"s">>), NumToString(p.second)>> >>

\* the entries of the table whose token starts the string
TokensAt(s, table) ==
  {i \in 1..Len(table) : IsPrefixOf(table[i][1], s)}

\* the longest of them, 0 when there is none
LongestAt(s, table) ==
  IF TokensAt(s, table) = {} THEN 0
  ELSE CHOOSE i \in TokensAt(s, table) :
         \A j \in TokensAt(s, table) : Len(table[i][1]) >= Len(table[j][1])

\* one scan from left to right: the longest token at the position is
\* replaced, any other character is copied
RECURSIVE ScanReplace(_, _)
RECURSIVE ScanFrom(_, _, _)
ScanFrom(s, table, i) ==
  IF i = 0 THEN <<Head(s)>> \o ScanReplace(Tail(s), table)
  ELSE table[i][2]
       \o ScanReplace(SubSeq(s, Len(table[i][1]) + 1, Len(s)), table)

ScanReplace(s, table) ==
  IF s = <<>> THEN <<>> ELSE ScanFrom(s, table, LongestAt(s, table))

\* C11: for every template over the token letters and other characters,
\* formatCustom returns what one left-to-right scan returns that replaces
\* the longest token at each position and copies every other character.
C11_LongestTokenScan ==
  (call.fn = "formatCustom" /\ call.format.t = "string")
  => /\ ret.st = "ok"
     /\ ret.v = ScanReplace(call.format.v,
                            TokenTable(ZonedParts(call.date, TZ_UTC)))

\* C11 witness: YYYYYMMM on 2024-01-05 gave 2024Y011.
C11_Witness ==
  /\ call.fn = "formatCustom"
  /\ call.date = EarlyDate
  /\ call.format.v = <<"Y", "Y", "Y", "Y", "Y", "M", "M", "M">>
  /\ ret.st = "ok"
  /\ ret.v = <<"2", "0", "2", "4", "Y", "0", "1", "1">>

\* ------------------------------------------------------------------------
\* Properties of loadConfig's objects (specification SpecConfig)
\* ------------------------------------------------------------------------
\* the step is a call of loadConfig
LoadConfigStep == call.fn = "none" /\ call'.fn = "loadConfig"

\* C13: whatever calls and assignments to returned objects came before,
\* the DEFAULT_CONFIG object keeps its values, a call of loadConfig returns
\* an object that no caller holds yet and that is not DEFAULT_CONFIG,
\* leaves the objects held as they are, and, called with nothing, null or
\* undefined, returns the original default values.
C13_LoadConfigReturnsFreshObject ==
  [][/\ heap'[DefaultAddr] = DEFAULT_CONFIG
     /\ LoadConfigStep
        => /\ ret'.st = "ok"
           /\ ret'.v # DefaultAddr
           /\ ret'.v \notin held
           /\ \A r \in held : heap'[r] = heap[r]
           /\ call'.userConfig.t \in {"undefined", "null"}
              => heap'[ret'.v] = DEFAULT_CONFIG]_vars

\* C13 witness: an object loadConfig returned had a field assigned, and a
\* later loadConfig() returned the default values in a third object.
C13_Witness ==
  /\ call.fn = "loadConfig"
  /\ call.userConfig.t = "undefined"
  /\ mutations >= 1
  /\ Len(heap) = 3
  /\ heap[2] # DEFAULT_CONFIG
  /\ ret.v = 3
  /\ heap[3] = DEFAULT_CONFIG

\* ------------------------------------------------------------------------
\* Properties of loadConfig and validateConfig (specification SpecValidate)
\* ------------------------------------------------------------------------
\* C14: loadConfig is a shallow merge field by field: for every partial
\* configuration and each of the seven fields, the field of the result is
\* the value the partial configuration holds for it when it contains the
\* field, and the default value otherwise.
C14_LoadConfigMergesPerField ==
  (call.fn = "loadConfig" /\ call.userConfig.t = "object")
  => /\ ret.st = "ok"
     /\ DOMAIN ret.v = Fields
     /\ \A f \in Fields :
          ret.v[f] = IF f \in DOMAIN call.userConfig.v
                     THEN call.userConfig.v[f]
                     ELSE DEFAULT_CONFIG[f]

\* loadConfig({enabled: false, prefix: null}) overrides two fields and
\* keeps the other five defaults
C14_Witness ==
  /\ call.fn = "loadConfig"
  /\ call.userConfig = Obj([enabled |-> Bool(FALSE), prefix |-> Null])
  /\ ret.v = [DEFAULT_CONFIG EXCEPT !.enabled = Bool(FALSE), !.prefix = Null]

\* the check of field f, as the contract of the field states it
FailsCheck(cfg, f) ==
  CASE f \in {"enabled", "includeInEveryMessage"} -> cfg[f].t # "boolean"
    [] f \in {"prefix", "suffix"} -> cfg[f].t # "string"
    [] f = "format" ->
         ~(cfg.format.t = "string"
           /\ cfg.format.v \in {Format_iso, Format_locale, Format_custom})
    [] f = "customFormat" ->
         /\ cfg.format = Str(Format_custom)
         /\ ~(cfg.customFormat.t = "string" /\ ~IsBlank(cfg.customFormat.v))
    [] f = "timezone" ->
         \/ cfg.timezone.t # "string"
         \/ cfg.timezone.v # <<>> /\ cfg.timezone.v \notin ValidZones

FailingFields(cfg) == {f \in Fields : FailsCheck(cfg, f)}

ErrorsOf(errors, f) == {i \in 1..Len(errors) : errors[i].field = f}

\* C15: validateConfig never stops at the first failure: the list holds
\* exactly one error for each field that fails its check and none for a
\* field that passes, so k invalid fields give k errors, the default
\* configuration gives none, and valid is true exactly when the list is
\* empty.
C15_OneErrorPerFailingField ==
  call.fn = "validateConfig"
  => /\ ret.st = "ok"
     /\ \A f \in Fields :
          Cardinality(ErrorsOf(ret.v.errors, f))
            = IF FailsCheck(call.config, f) THEN 1 ELSE 0
     /\ Len(ret.v.errors) = Cardinality(FailingFields(call.config))
     /\ ret.v.valid <=> ret.v.errors = <<>>
     /\ call.config = DEFAULT_CONFIG => ret.v.errors = <<>>

\* six fields invalid at once give six errors
C15_Witness ==
  /\ call.fn = "validateConfig"
  /\ call.config = [enabled |-> Str(<<"y", "e", "s">>),
                    format |-> Str(<<"b", "a", "d">>),
                    customFormat |-> Str(<<>>),
                    timezone |-> Num(5),
                    includeInEveryMessage |-> Num(1),
                    prefix |-> Num(5),
                    suffix |-> Null]
  /\ Len(ret.v.errors) = 6
  /\ ~ret.v.valid

\* the place of a field in the declaration of TimeRefreshConfig
PlaceOf(f) == CHOOSE i \in 1..Len(FieldOrder) : FieldOrder[i] = f

\* C16: the errors of validateConfig follow the order in which the fields
\* are declared: an error for f stands before an error for g only if f is
\* declared before g.
C16_ErrorsInDeclarationOrder ==
  call.fn = "validateConfig"
  => /\ ret.st = "ok"
     /\ \A i, j \in 1..Len(ret.v.errors) :
          i < j => PlaceOf(ret.v.errors[i].field)
                     < PlaceOf(ret.v.errors[j].field)

\* a blank template, an unknown zone and a suffix that is a number are
\* reported in that order
C16_Witness ==
  /\ call.fn = "validateConfig"
  /\ call.config = [DEFAULT_CONFIG EXCEPT !.format = Str(Format_custom),
                                          !.customFormat = Str(<<" ">>),
                                          !.timezone = Str(TZ_Invalid),
                                          !.suffix = Num(5)]
  /\ ret.st = "ok"
  /\ [i \in 1..Len(ret.v.errors) |-> ret.v.errors[i].field]
       = <<"customFormat", "timezone", "suffix">>

\* a value of the wrong type, or outside the values the field admits
WrongValue(cfg, f) ==
  CASE f \in {"enabled", "includeInEveryMessage"} -> cfg[f].t # "boolean"
    [] f \in {"prefix", "suffix", "customFormat"} -> cfg[f].t # "string"
    [] f = "format" ->
         ~(cfg.format.t = "string"
           /\ cfg.format.v \in {Format_iso, Format_locale, Format_custom})
    [] f = "timezone" ->
         \/ cfg.timezone.t # "string"
         \/ cfg.timezone.v # <<>> /\ cfg.timezone.v \notin ValidZones

ReportedWithValue(errors, cfg, f) ==
  \E i \in 1..Len(errors) :
    errors[i].field = f /\ errors[i].value = cfg[f]

\* C17 as stated: validateConfig never throws, and a wrong value in any
\* field gives an error that names the field and holds the value.
C17_AnyFieldReported ==
  call.fn = "validateConfig"
  => /\ ret.st = "ok"
     /\ \A f \in Fields :
          WrongValue(call.config, f)
          => ReportedWithValue(ret.v.errors, call.config, f)

\* C17: validateConfig never throws on wrong-typed or out-of-range values,
\* and a wrong value in a field gives an error that names the field and
\* holds the value; for customFormat this is so when format is 'custom',
\* the only case in which the field is checked.
C17_CheckedFieldReported ==
  call.fn = "validateConfig"
  => /\ ret.st = "ok"
     /\ \A f \in Fields :
          /\ WrongValue(call.config, f)
          /\ f = "customFormat" => call.config.format = Str(Format_custom)
          => ReportedWithValue(ret.v.errors, call.config, f)

\* format 'custom' with customFormat null: no exception, and an error on
\* customFormat that holds null
C17_Witness ==
  /\ call.fn = "validateConfig"
  /\ call.config.format = Str(Format_custom)
  /\ call.config.customFormat = Null
  /\ call.config.prefix = Null
  /\ ret.st = "ok"
  /\ ReportedWithValue(ret.v.errors, call.config, "customFormat")
  /\ ReportedWithValue(ret.v.errors, call.config, "prefix")

\* ------------------------------------------------------------------------
\* Properties of several activations (specification SpecActivations)
\* ------------------------------------------------------------------------
\* the hooks objects with a handler among the addresses in hs
Handlers(h, hs) == {r \in hs : h[r].hooks # {}}

\* the factory has created a guard that is empty and that no handler
\* created before holds
OwnEmptyGuard(r) ==
  /\ heap'[r].processedMessages > Len(heap)
  /\ GuardOf(heap', r) = {}
  /\ \A q \in Handlers(heap, held) :
       /\ heap[q].processedMessages # heap'[r].processedMessages
       /\ GuardOf(heap', q) = GuardOf(heap, q)

\* an invocation through the handler of r is suppressed by the guard of r
\* alone and changes the guard of no other handler
OwnGuardDecides(r) ==
  /\ last'.outcome = "duplicate"
       <=> messageKeyOf(last'.sessionID, last'.messageID) \in GuardOf(heap, r)
  /\ \A q \in Handlers(heap, held) \ {r} :
       GuardOf(heap', q) = GuardOf(heap, q)

============================================================================
